---- MODULE Spec2Model ----
(***************************************************************************)
(* Model of the numerical kernels of the AIMS optimisation notebooks:      *)
(*   - project_onto_l1_ball, huber_gradient and gradient_descent           *)
(*     (src/sudoku.ipynb, "Sparse signal recovery with Huber objective"),  *)
(*   - the Sudoku integer program and its extraction loop                  *)
(*     (src/sudoku.ipynb),                                                 *)
(*   - the two-block ADMM loop (src/admm.ipynb).                           *)
(* numpy's real numbers are modelled by exact rationals <<num, den>> in    *)
(* lowest terms with den > 0, so every statement below is a statement in   *)
(* exact arithmetic.  Vectors are sequences of rationals, matrices are     *)
(* sequences of rows.                                                      *)
(***************************************************************************)
EXTENDS Integers, Sequences, FiniteSets, TLC

\* ------------------------------------------------------------------------
\* Bounds of the model
\* ------------------------------------------------------------------------
MaxDim == 3
MaxVal == 2
MaxCalls == 2
MaxEntry == 1
MaxIters == 3
MaxADMMIters == 4
MaxRuns == 2

\* ------------------------------------------------------------------------
\* Exact rational arithmetic (the scalar operations numpy performs)
\* ------------------------------------------------------------------------
IAbs(i) == IF i < 0 THEN -i ELSE i

RECURSIVE GCD(_, _)
GCD(a, b) == IF b = 0 THEN a ELSE GCD(b, a % b)

Rat(n, d) ==
    LET g == GCD(IAbs(n), IAbs(d))
        sg == IF d < 0 THEN -1 ELSE 1
    IN  <<(sg * n) \div g, (sg * d) \div g>>

R(i) == <<i, 1>>
Zero == <<0, 1>>

RAdd(a, b) == Rat(a[1] * b[2] + b[1] * a[2], a[2] * b[2])
RSub(a, b) == Rat(a[1] * b[2] - b[1] * a[2], a[2] * b[2])
RMul(a, b) == Rat(a[1] * b[1], a[2] * b[2])
RDiv(a, b) == Rat(a[1] * b[2], a[2] * b[1])
RLe(a, b) == a[1] * b[2] <= b[1] * a[2]
RLt(a, b) == a[1] * b[2] < b[1] * a[2]
RAbs(a) == <<IAbs(a[1]), a[2]>>
RSign(a) == IF a[1] > 0 THEN R(1) ELSE IF a[1] < 0 THEN R(-1) ELSE Zero
RMax(a, b) == IF RLe(a, b) THEN b ELSE a

\* ------------------------------------------------------------------------
\* Vector helpers
\* ------------------------------------------------------------------------
RECURSIVE VSumTo(_, _)
VSumTo(s, i) == IF i = 0 THEN Zero ELSE RAdd(VSumTo(s, i - 1), s[i])

VSum(s) == VSumTo(s, Len(s))
VAbs(s) == [i \in 1..Len(s) |-> RAbs(s[i])]
Norm1(s) == VSum(VAbs(s))
Dot(a, b) == VSum([i \in 1..Len(a) |-> RMul(a[i], b[i])])
VSub(a, b) == [i \in 1..Len(a) |-> RSub(a[i], b[i])]
VScale(c, a) == [i \in 1..Len(a) |-> RMul(c, a[i])]

\* A @ x and A.T @ g for a matrix given as the sequence of its rows
MatVec(M, a) == [i \in 1..Len(M) |-> Dot(M[i], a)]
TMatVec(M, g) ==
    [j \in 1..Len(M[1]) |-> VSum([i \in 1..Len(M) |-> RMul(M[i][j], g[i])])]

\* np.linalg.norm(g) < t, decided without the square root:
\* ||g||_2 < t  iff  t > 0 and ||g||_2^2 < t^2
Norm2Lt(g, t) == RLt(Zero, t) /\ RLt(Dot(g, g), RMul(t, t))

\* np.sort(u)[::-1]: the entries of u in descending order
RECURSIVE InsertDesc(_, _)
RECURSIVE InsertAsc(_, _)
InsertAsc(a, s) ==
    IF s = <<>> THEN <<a>>
    ELSE IF RLe(a, Head(s)) THEN <<a>> \o s
    ELSE <<Head(s)>> \o InsertAsc(a, Tail(s))

InsertDesc(a, s) ==
    IF s = <<>> THEN <<a>>
    ELSE IF RLe(Head(s), a) THEN <<a>> \o s
    ELSE <<Head(s)>> \o InsertDesc(a, Tail(s))

RECURSIVE SortDesc(_)
SortNone(s) == s

SortDesc(s) == IF s = <<>> THEN <<>> ELSE InsertDesc(Head(s), SortDesc(Tail(s)))

SetMax(S) == CHOOSE m \in S : \A o \in S : o <= m

\* ------------------------------------------------------------------------
\* project_onto_l1_ball(x, N)
\* The result records the outcome of the call and the locals rho and theta.
\* A local that was never bound is NoRho (indices are 1-based) or NoVal.
\* ------------------------------------------------------------------------
NoVal == <<>>
NoRho == 0

Returned(val, rho, theta) ==
    [status |-> "ok", value |-> val, rho |-> rho, theta |-> theta]

Raised(err) ==
    [status |-> err, value |-> NoVal, rho |-> NoRho, theta |-> NoVal]

Pending == Raised("pending")

\* ind[cond][-1]: the last of the qualifying (ascending) indices
SelectFirst(sel) == CHOOSE m \in sel : \A o \in sel : m <= o

SelectLastButOne(sel) ==
    IF Cardinality(sel) > 1 THEN SetMax(sel) - 1 ELSE SetMax(sel)

SelectLast(sel) == SetMax(sel)

\* np.sign(x) * np.maximum(u - theta, 0)
SoftThresholdNoClamp(v, u, theta) ==
    [j \in 1..Len(v) |-> RMul(RSign(v[j]), RSub(u[j], theta))]

SoftThresholdNoSign(v, u, theta) ==
    [j \in 1..Len(v) |-> RMax(RSub(u[j], theta), Zero)]

SoftThreshold(v, u, theta) ==
    [j \in 1..Len(v) |-> RMul(RSign(v[j]), RMax(RSub(u[j], theta), Zero))]

\* theta = cssv[cond][-1] / rho
ThresholdNoDivide(c, rho) == c

ThresholdHalved(c, rho) == RDiv(c, R(2 * rho))

Threshold(c, rho) == RDiv(c, R(rho))

\* The general path: sort, find the threshold, soft-threshold
GeneralPath(v, u, radius) ==
    LET s == SortDesc(u)
        cssv == [i \in 1..Len(s) |-> RSub(VSumTo(s, i), radius)]
        ind == [i \in 1..Len(s) |-> i]
        cond == [i \in 1..Len(s) |->
                    RLt(Zero, RSub(s[i], RDiv(cssv[i], R(ind[i]))))]
        sel == {i \in 1..Len(s) : cond[i]}
    IN  IF sel = {} THEN Raised("IndexError")
        ELSE
          LET last == SelectLast(sel)
              rho == ind[last]
              theta == Threshold(cssv[last], rho)
          IN  Returned(SoftThreshold(v, u, theta), rho, theta)

project_NoFastPath(v, radius) == GeneralPath(v, VAbs(v), radius)

project_NegatedRadius(v, radius) ==
    IF RLe(Norm1(v), radius) THEN Returned(v, NoRho, NoVal)
    ELSE GeneralPath(v, VAbs(v), RSub(Zero, radius))

project_onto_l1_ball(v, radius) ==
    IF RLe(Norm1(v), radius) THEN Returned(v, NoRho, NoVal)
    ELSE
      LET u == VAbs(v) IN
      IF RLe(VSum(u), radius) THEN Returned(v, NoRho, NoVal)
      ELSE GeneralPath(v, u, radius)

\* ------------------------------------------------------------------------
\* huber_gradient(A, x, y)
\* ------------------------------------------------------------------------
\* np.where(np.abs(u) <= 1, 2 * u, 2 * np.sign(u)), per component
HuberWhereLinear(u) == RMul(R(2), u)

HuberWhereUnitTail(u) ==
    IF RLe(RAbs(u), R(1)) THEN RMul(R(2), u) ELSE RSign(u)

HuberWhere(u) ==
    IF RLe(RAbs(u), R(1)) THEN RMul(R(2), u) ELSE RMul(R(2), RSign(u))

huber_gradient(M, a, b) ==
    LET Ax_minus_y == VSub(MatVec(M, a), b)
        g == [i \in 1..Len(Ax_minus_y) |-> HuberWhere(Ax_minus_y[i])]
    IN  TMatVec(M, g)

\* L1 norm constraint of the notebook (a module-level name read by
\* gradient_descent)
N == R(10)

\* ------------------------------------------------------------------------
\* Inputs
\* ------------------------------------------------------------------------
GridVals == {R(i) : i \in (-MaxVal)..MaxVal}
GridVectors == UNION {[1..d -> GridVals] : d \in 1..MaxDim}
ScenarioVectors == {<<R(4), R(-3), R(2)>>, <<R(1), R(1), R(1)>>,
                    <<Rat(1, 2), R(2), R(-2)>>}
Vectors == GridVectors \cup ScenarioVectors
Radii == {R(-1), Zero, Rat(1, 2), R(1), R(2), R(3), R(5), R(10)}

Entries == {R(i) : i \in (-MaxEntry)..MaxEntry}
Matrices(m, n) == [1..m -> [1..n -> Entries]]
Identity3 == <<<<R(1), Zero, Zero>>, <<Zero, R(1), Zero>>, <<Zero, Zero, R(1)>>>>
HubMatrices == Matrices(1, 1) \cup Matrices(1, 2) \cup Matrices(2, 1)
                  \cup Matrices(2, 2) \cup {Identity3}
HubVals == {R(-2), R(-1), Rat(-1, 2), Zero, Rat(1, 2), R(1), R(2)}
HubObs == {Zero, R(1)}

GDMatrices == Matrices(1, 2)
                 \cup {<<<<R(1), Zero>>, <<Zero, R(1)>>>>,
                       <<<<R(1), R(1)>>, <<Zero, R(-2)>>>>,
                       <<<<R(3), R(-1)>>, <<R(2), R(2)>>>>}
GDStarts == {<<Zero, Zero>>, <<R(1), R(-2)>>, <<R(12), Zero>>, <<R(-7), R(8)>>}
GDObs == {Zero, R(3)}
GDSteps == {Rat(1, 4), Rat(1, 2), R(4)}
GDTolerances == {Rat(1, 100), Rat(3, 2), R(5)}

VARIABLES
    proj_x, proj_N, proj_ret, proj_pc, proj_calls,   \* a caller of the projector
    hub_A, hub_x, hub_y, hub_ret, hub_pc,            \* a caller of huber_gradient
    A, y, caller_x, step_size, max_iters, tolerance, \* arguments of gradient_descent
    x, k, grad, pc, state, stdout, gd_ret,           \* its frame and its outcome
    cfg_N,                                           \* the module-level name N it reads
    x_k,                                             \* history: x at the start of the current loop body
    admm_A, admm_b, rho, admm_eps, admm_max_iters,   \* data and parameters of the ADMM cell
    w, w_tilde, admm_y, residual, residuals, admm_k, \* the names the ADMM loop assigns
    wt_status, w_status, solves,                     \* problem.status of the two sub-problems, solver invocations
    admm_pc, admm_state, runs, results,              \* position in the loop cell, executions of it, their outcomes
    initial_grid, sud_x, sud_status, solution, sud_pc \* the Sudoku program

proj_vars == <<proj_x, proj_N, proj_ret, proj_pc, proj_calls>>
hub_vars == <<hub_A, hub_x, hub_y, hub_ret, hub_pc>>
gd_args == <<A, y, caller_x, step_size, max_iters, tolerance, cfg_N>>
gd_vars == <<A, y, caller_x, step_size, max_iters, tolerance, cfg_N,
             x, k, grad, pc, state, stdout, gd_ret, x_k>>
admm_args == <<admm_A, admm_b, rho, admm_eps, admm_max_iters>>
admm_vars == <<admm_A, admm_b, rho, admm_eps, admm_max_iters,
               w, w_tilde, admm_y, residual, residuals, admm_k,
               wt_status, w_status, solves, admm_pc, admm_state, runs, results>>
sud_vars == <<initial_grid, sud_x, sud_status, solution, sud_pc>>
vars == <<proj_vars, hub_vars, gd_vars, admm_vars, sud_vars>>

\* Nothing has been called
ProjIdle ==
    /\ proj_x = <<>> /\ proj_N = N /\ proj_ret = Pending
    /\ proj_pc = "idle" /\ proj_calls = 0

HubIdle ==
    /\ hub_A = <<>> /\ hub_x = <<>> /\ hub_y = <<>> /\ hub_ret = <<>>
    /\ hub_pc = "idle"

GDIdle ==
    /\ A = <<>> /\ y = <<>> /\ caller_x = <<>> /\ step_size = Zero
    /\ max_iters = 0 /\ tolerance = Zero
    /\ x = <<>> /\ k = -1 /\ grad = <<>> /\ pc = "idle"
    /\ state = "Running" /\ stdout = <<>> /\ gd_ret = [x |-> NoVal]
    /\ cfg_N = N /\ x_k = <<>>

ADMMIdle ==
    /\ admm_A = Zero /\ admm_b = Zero /\ rho = R(1) /\ admm_eps = Zero
    /\ admm_max_iters = 0
    /\ w = Zero /\ w_tilde = Zero /\ admm_y = Zero
    /\ residual = Zero /\ residuals = <<>> /\ admm_k = -1
    /\ wt_status = "unsolved" /\ w_status = "unsolved" /\ solves = 0
    /\ admm_pc = "idle" /\ admm_state = "Running" /\ runs = 0
    /\ results = <<>>

SudIdle ==
    /\ initial_grid = <<>> /\ sud_x = <<>> /\ sud_status = "unsolved"
    /\ solution = <<>> /\ sud_pc = "idle"

\* ------------------------------------------------------------------------
\* A caller of project_onto_l1_ball
\* ------------------------------------------------------------------------
InitProj ==
    /\ proj_x \in Vectors
    /\ proj_N \in Radii
    /\ proj_ret = Pending
    /\ proj_pc = "call"
    /\ proj_calls = 0
    /\ HubIdle /\ GDIdle /\ ADMMIdle /\ SudIdle

\* One call project_onto_l1_ball(proj_x, proj_N)
Project ==
    /\ proj_pc = "call"
    /\ proj_ret' = project_onto_l1_ball(proj_x, proj_N)
    /\ proj_pc' = "done"
    /\ proj_calls' = proj_calls + 1
    /\ UNCHANGED <<proj_x, proj_N, hub_vars, gd_vars, admm_vars, sud_vars>>

\* The caller feeds the returned vector back to the projector
\* (x = project_onto_l1_ball(x, N), as gradient_descent does)
Reproject ==
    /\ proj_pc = "done"
    /\ proj_ret.status = "ok"
    /\ proj_calls < MaxCalls
    /\ proj_x' = proj_ret.value
    /\ proj_pc' = "call"
    /\ UNCHANGED <<proj_N, proj_ret, proj_calls, hub_vars, gd_vars, admm_vars, sud_vars>>

NextProj == Project \/ Reproject

SpecProj == InitProj /\ [][NextProj]_vars

\* ------------------------------------------------------------------------
\* A caller of huber_gradient
\* ------------------------------------------------------------------------
InitHuber ==
    /\ hub_A \in HubMatrices
    /\ hub_x \in [1..Len(hub_A[1]) -> HubVals]
    /\ hub_y \in [1..Len(hub_A) -> HubObs]
    /\ hub_ret = <<>>
    /\ hub_pc = "call"
    /\ ProjIdle /\ GDIdle /\ ADMMIdle /\ SudIdle

HuberGradient ==
    /\ hub_pc = "call"
    /\ hub_ret' = huber_gradient(hub_A, hub_x, hub_y)
    /\ hub_pc' = "done"
    /\ UNCHANGED <<hub_A, hub_x, hub_y, proj_vars, gd_vars, admm_vars, sud_vars>>

NextHuber == HuberGradient

SpecHuber == InitHuber /\ [][NextHuber]_vars

\* ------------------------------------------------------------------------
\* gradient_descent(A, x, y, step_size, max_iters, tolerance)
\* k is the loop variable of "for k in range(max_iters)", -1 before the
\* first iteration; pc is the statement about to be executed; state is the
\* way the loop was left.
\* ------------------------------------------------------------------------
InitGD ==
    /\ A \in GDMatrices
    /\ y \in [1..Len(A) -> GDObs]
    /\ caller_x \in GDStarts
    /\ step_size \in GDSteps
    /\ max_iters \in 0..MaxIters
    /\ tolerance \in GDTolerances
    /\ x = caller_x
    /\ x_k = caller_x
    /\ k = -1
    /\ grad = <<>>
    /\ pc = "for"
    /\ state = "Running"
    /\ stdout = <<>>
    /\ gd_ret = [x |-> NoVal]
    /\ cfg_N = N
    /\ ProjIdle /\ HubIdle /\ ADMMIdle /\ SudIdle

\* for k in range(max_iters): next index, or the range is exhausted
GD_For ==
    /\ pc = "for"
    /\ IF k + 1 < max_iters
         THEN /\ k' = k + 1
              /\ x_k' = x
              /\ pc' = "grad"
              /\ UNCHANGED state
         ELSE /\ state' = "BudgetExhausted"
              /\ pc' = "return"
              /\ UNCHANGED <<k, x_k>>
    /\ UNCHANGED <<gd_args, x, grad, stdout, gd_ret, proj_vars, hub_vars, admm_vars, sud_vars>>

\* grad = huber_gradient(A, x, y)
GD_Grad ==
    /\ pc = "grad"
    /\ grad' = huber_gradient(A, x, y)
    /\ pc' = "step"
    /\ UNCHANGED <<gd_args, x_k, x, k, state, stdout, gd_ret, proj_vars, hub_vars, admm_vars, sud_vars>>

\* x = x - step_size * grad
GD_StepRegrad ==
    /\ pc = "step"
    /\ x' = VSub(x, VScale(step_size, grad))
    /\ grad' = huber_gradient(A, VSub(x, VScale(step_size, grad)), y)
    /\ pc' = "project"
    /\ UNCHANGED <<gd_args, x_k, k, state, stdout, gd_ret, proj_vars, hub_vars, admm_vars, sud_vars>>

GD_StepInPlace ==
    /\ pc = "step"
    /\ x' = VSub(x, VScale(step_size, grad))
    /\ caller_x' = VSub(x, VScale(step_size, grad))
    /\ pc' = "project"
    /\ UNCHANGED <<A, y, step_size, max_iters, tolerance, cfg_N, x_k, k, grad, state, stdout, gd_ret, proj_vars, hub_vars, admm_vars, sud_vars>>

GD_Step ==
    /\ pc = "step"
    /\ x' = VSub(x, VScale(step_size, grad))
    /\ pc' = "project"
    /\ UNCHANGED <<gd_args, x_k, k, grad, state, stdout, gd_ret, proj_vars, hub_vars, admm_vars, sud_vars>>

\* x = project_onto_l1_ball(x, N); an exception leaves the function
GD_ProjectSkipped ==
    /\ pc = "project"
    /\ pc' = "test"
    /\ UNCHANGED <<gd_args, x_k, x, k, grad, state, stdout, gd_ret, proj_vars, hub_vars, admm_vars, sud_vars>>

GD_Project ==
    /\ pc = "project"
    /\ LET r == project_onto_l1_ball(x, cfg_N) IN
         IF r.status = "ok"
           THEN x' = r.value /\ pc' = "test" /\ UNCHANGED state
           ELSE x' = x /\ pc' = "raised" /\ state' = r.status
    /\ UNCHANGED <<gd_args, x_k, k, grad, stdout, gd_ret, proj_vars, hub_vars, admm_vars, sud_vars>>

\* if np.linalg.norm(grad) < tolerance: print(...); break
GD_TestNoBreak ==
    /\ pc = "test"
    /\ IF Norm2Lt(grad, tolerance)
         THEN stdout' = Append(stdout, k)
         ELSE UNCHANGED stdout
    /\ pc' = "for"
    /\ UNCHANGED <<gd_args, x_k, x, k, grad, state, gd_ret, proj_vars, hub_vars, admm_vars, sud_vars>>

GD_Test ==
    /\ pc = "test"
    /\ IF Norm2Lt(grad, tolerance)
         THEN /\ stdout' = Append(stdout, k)
              /\ state' = "Converged"
              /\ pc' = "return"
         ELSE /\ pc' = "for"
              /\ UNCHANGED <<stdout, state>>
    /\ UNCHANGED <<gd_args, x_k, x, k, grad, gd_ret, proj_vars, hub_vars, admm_vars, sud_vars>>

\* return x: the caller receives the iterate and nothing else
GD_Return ==
    /\ pc = "return"
    /\ gd_ret' = [x |-> x]
    /\ pc' = "done"
    /\ UNCHANGED <<gd_args, x_k, x, k, grad, state, stdout, proj_vars, hub_vars, admm_vars, sud_vars>>

NextGD == GD_For \/ GD_Grad \/ GD_Step \/ GD_Project \/ GD_Test \/ GD_Return

SpecGD == InitGD /\ [][NextGD]_vars

\* ------------------------------------------------------------------------
\* Two-block ADMM (src/admm.ipynb), one-dimensional data: A and b are
\* numbers, so f(u) = (A u - b)^2 / 2, g(u) = u^2 / 2 and the norm of the
\* residual is an absolute value.  The sub-problems are solved exactly.
\* ------------------------------------------------------------------------
\* w_tilde_problem.solve() with f = lambda w_tilde: cp.sum_squares(A @
\* w_tilde - b) / 2: the minimiser of f(u) + (rho / 2) (u - c)^2
ArgminFNoData(M, c0, r, c) == c

ArgminF(M, c0, r, c) ==
    RDiv(RAdd(RMul(M, c0), RMul(r, c)), RAdd(RMul(M, M), r))

\* w_problem.solve() with g = lambda w: cp.sum_squares(w) / 2: the
\* minimiser of g(u) + (rho / 2) (u - c)^2
ArgminGNoRegulariser(r, c) == c

ArgminG(r, c) == RDiv(RMul(r, c), RAdd(R(1), r))

\* cp.sum_squares(w_tilde - w.value + y / rho): distance to w - y / rho
WTildeCentre(wv, yv, r) == RSub(wv, RDiv(yv, r))

\* cp.sum_squares(w - w_tilde.value - y / rho): distance to w_tilde + y / rho
WCentreDualAdded(wt, yv, r) == RSub(wt, RDiv(yv, r))

WCentre(wt, yv, r) == RAdd(wt, RDiv(yv, r))

\* y += rho * (w_tilde.value - w.value)
DualStepReversed(yv, r, wt, wv) == RAdd(yv, RMul(r, RSub(wv, wt)))

DualStep(yv, r, wt, wv) == RAdd(yv, RMul(r, RSub(wt, wv)))

\* What one execution of the loop cell leaves behind
Outcome == [w |-> w, w_tilde |-> w_tilde, y |-> admm_y, residuals |-> residuals]

ADMMData_A == {Zero, R(1), R(2)}
ADMMData_b == {Zero, R(1), R(-2), R(3)}
\* <<rho, threshold of the residual test>>
ADMMConfigs == {<<R(1), Rat(1, 4)>>, <<R(1), Rat(1, 10)>>,
                <<R(2), Rat(1, 4)>>, <<R(2), Rat(1, 2)>>}
BadRhos == {R(-1), Zero}

\* The state after the initialisation cell: w = w_tilde = y = 0
ADMMStart ==
    /\ admm_A \in ADMMData_A
    /\ admm_b \in ADMMData_b
    /\ admm_max_iters \in 0..MaxADMMIters
    /\ w = Zero /\ w_tilde = Zero /\ admm_y = Zero
    /\ residual = Zero /\ residuals = <<>> /\ admm_k = -1
    /\ wt_status = "unsolved" /\ w_status = "unsolved" /\ solves = 0
    /\ admm_pc = "for" /\ admm_state = "Running" /\ runs = 1
    /\ results = <<>>

InitADMM ==
    /\ \E c \in ADMMConfigs : rho = c[1] /\ admm_eps = c[2]
    /\ ADMMStart
    /\ ProjIdle /\ HubIdle /\ GDIdle /\ SudIdle

\* for k in tqdm(range(max_iters)): next index, or the range is exhausted
ADMM_For ==
    /\ admm_pc = "for"
    /\ IF admm_k + 1 < admm_max_iters
         THEN /\ admm_k' = admm_k + 1
              /\ admm_pc' = "w_tilde"
              /\ UNCHANGED <<admm_state, results>>
         ELSE /\ admm_state' = "BudgetExhausted"
              /\ admm_pc' = "done"
              /\ results' = Append(results, Outcome)
              /\ UNCHANGED admm_k
    /\ UNCHANGED <<admm_args, w, w_tilde, admm_y, residual, residuals,
                   wt_status, w_status, solves, runs,
                   proj_vars, hub_vars, gd_vars, sud_vars>>

\* w_tilde update: build the objective and call w_tilde_problem.solve().
\* The objective is convex only for rho > 0; otherwise the call raises.
ADMM_WTilde ==
    /\ admm_pc = "w_tilde"
    /\ solves' = solves + 1
    /\ IF RLt(Zero, rho)
         THEN /\ w_tilde' = ArgminF(admm_A, admm_b, rho,
                                    WTildeCentre(w, admm_y, rho))
              /\ wt_status' = "optimal"
              /\ admm_pc' = "w"
              /\ UNCHANGED admm_state
         ELSE /\ wt_status' = "error"
              /\ admm_state' = "SolverError"
              /\ admm_pc' = "raised"
              /\ UNCHANGED w_tilde
    /\ UNCHANGED <<admm_args, w, admm_y, residual, residuals, admm_k,
                   w_status, runs, results,
                   proj_vars, hub_vars, gd_vars, sud_vars>>

\* w update: build the objective and call w_problem.solve()
ADMM_W ==
    /\ admm_pc = "w"
    /\ solves' = solves + 1
    /\ w' = ArgminG(rho, WCentre(w_tilde, admm_y, rho))
    /\ w_status' = "optimal"
    /\ admm_pc' = "dual"
    /\ UNCHANGED <<admm_args, w_tilde, admm_y, residual, residuals, admm_k,
                   wt_status, admm_state, runs, results,
                   proj_vars, hub_vars, gd_vars, sud_vars>>

\* y += rho * (w_tilde.value - w.value)
ADMM_DualTwice ==
    /\ admm_pc = "dual"
    /\ admm_y' = DualStep(DualStep(admm_y, rho, w_tilde, w), rho, w_tilde, w)
    /\ admm_pc' = "residual"
    /\ UNCHANGED <<admm_args, w, w_tilde, residual, residuals, admm_k,
                   wt_status, w_status, solves, admm_state, runs, results,
                   proj_vars, hub_vars, gd_vars, sud_vars>>

ADMM_Dual ==
    /\ admm_pc = "dual"
    /\ admm_y' = DualStep(admm_y, rho, w_tilde, w)
    /\ admm_pc' = "residual"
    /\ UNCHANGED <<admm_args, w, w_tilde, residual, residuals, admm_k,
                   wt_status, w_status, solves, admm_state, runs, results,
                   proj_vars, hub_vars, gd_vars, sud_vars>>

\* residual = np.linalg.norm(w.value - w_tilde.value); residuals.append(residual)
ADMM_ResidualOverwrite ==
    /\ admm_pc = "residual"
    /\ residual' = RAbs(RSub(w, w_tilde))
    /\ residuals' = <<RAbs(RSub(w, w_tilde))>>
    /\ admm_pc' = "test"
    /\ UNCHANGED <<admm_args, w, w_tilde, admm_y, admm_k,
                   wt_status, w_status, solves, admm_state, runs, results,
                   proj_vars, hub_vars, gd_vars, sud_vars>>

ADMM_Residual ==
    /\ admm_pc = "residual"
    /\ residual' = RAbs(RSub(w, w_tilde))
    /\ residuals' = Append(residuals, RAbs(RSub(w, w_tilde)))
    /\ admm_pc' = "test"
    /\ UNCHANGED <<admm_args, w, w_tilde, admm_y, admm_k,
                   wt_status, w_status, solves, admm_state, runs, results,
                   proj_vars, hub_vars, gd_vars, sud_vars>>

\* if residual < 1e-4: break
ADMM_TestNoBreak ==
    /\ admm_pc = "test"
    /\ admm_pc' = "for"
    /\ UNCHANGED <<admm_args, w, w_tilde, admm_y, residual, residuals, admm_k,
                   wt_status, w_status, solves, admm_state, runs, results,
                   proj_vars, hub_vars, gd_vars, sud_vars>>

ADMM_Test ==
    /\ admm_pc = "test"
    /\ IF RLt(residual, admm_eps)
         THEN /\ admm_state' = "Converged"
              /\ admm_pc' = "done"
              /\ results' = Append(results, Outcome)
         ELSE /\ admm_pc' = "for"
              /\ UNCHANGED <<admm_state, results>>
    /\ UNCHANGED <<admm_args, w, w_tilde, admm_y, residual, residuals, admm_k,
                   wt_status, w_status, solves, runs,
                   proj_vars, hub_vars, gd_vars, sud_vars>>

\* The loop cell is executed again: max_iters = 1000; residuals = []; for ...
\* w, w_tilde and y are module-level names the cell does not assign before
\* the loop.
ADMM_Cell ==
    /\ admm_pc = "done"
    /\ runs < MaxRuns
    /\ runs' = runs + 1
    /\ residuals' = <<>>
    /\ admm_k' = -1
    /\ admm_state' = "Running"
    /\ admm_pc' = "for"
    /\ UNCHANGED <<admm_args, w, w_tilde, admm_y, residual,
                   wt_status, w_status, solves, results,
                   proj_vars, hub_vars, gd_vars, sud_vars>>

LoopADMM ==
    \/ ADMM_For \/ ADMM_WTilde \/ ADMM_W \/ ADMM_Dual \/ ADMM_Residual
    \/ ADMM_Test

NextADMM == LoopADMM \/ ADMM_Cell

SpecADMM == InitADMM /\ [][NextADMM]_vars

\* ------------------------------------------------------------------------
\* The convex sub-solver breaks its contract.  solve() then either raises
\* (cp.SolverError leaves the cell) or returns with problem.status other
\* than "optimal"; the loop never reads problem.status, and the variable
\* keeps the value it had before the call.
\* ------------------------------------------------------------------------
SolveFailures == {"raise", "unchecked"}

ADMM_WTildeFail ==
    /\ admm_pc = "w_tilde"
    /\ RLt(Zero, rho)
    /\ solves' = solves + 1
    /\ \E o \in SolveFailures :
         IF o = "raise"
           THEN /\ wt_status' = "error"
                /\ admm_state' = "SolverError"
                /\ admm_pc' = "raised"
           ELSE /\ wt_status' = "infeasible_or_inaccurate"
                /\ admm_pc' = "w"
                /\ UNCHANGED admm_state
    /\ UNCHANGED <<admm_args, w, w_tilde, admm_y, residual, residuals, admm_k,
                   w_status, runs, results,
                   proj_vars, hub_vars, gd_vars, sud_vars>>

ADMM_WFail ==
    /\ admm_pc = "w"
    /\ solves' = solves + 1
    /\ \E o \in SolveFailures :
         IF o = "raise"
           THEN /\ w_status' = "error"
                /\ admm_state' = "SolverError"
                /\ admm_pc' = "raised"
           ELSE /\ w_status' = "infeasible_or_inaccurate"
                /\ admm_pc' = "dual"
                /\ UNCHANGED admm_state
    /\ UNCHANGED <<admm_args, w, w_tilde, admm_y, residual, residuals, admm_k,
                   wt_status, runs, results,
                   proj_vars, hub_vars, gd_vars, sud_vars>>

NextADMMFail == LoopADMM \/ ADMM_WTildeFail \/ ADMM_WFail

SpecADMMFail == InitADMM /\ [][NextADMMFail]_vars

\* ------------------------------------------------------------------------
\* The solvers under any configuration: gradient_descent with the
\* module-level N bound to any number, the ADMM cell with any rho
\* ------------------------------------------------------------------------
GDRadii == {R(-1), Zero, N}

InitConfigGD ==
    /\ A \in GDMatrices
    /\ y \in [1..Len(A) -> GDObs]
    /\ caller_x \in GDStarts
    /\ step_size \in GDSteps
    /\ max_iters \in 0..MaxIters
    /\ tolerance \in GDTolerances
    /\ cfg_N \in GDRadii
    /\ x = caller_x
    /\ x_k = caller_x
    /\ k = -1
    /\ grad = <<>>
    /\ pc = "for"
    /\ state = "Running"
    /\ stdout = <<>>
    /\ gd_ret = [x |-> NoVal]
    /\ ProjIdle /\ HubIdle /\ ADMMIdle /\ SudIdle

InitConfigADMM ==
    /\ \/ \E c \in ADMMConfigs : rho = c[1] /\ admm_eps = c[2]
       \/ rho \in BadRhos /\ admm_eps = Rat(1, 4)
    /\ ADMMStart
    /\ ProjIdle /\ HubIdle /\ GDIdle /\ SudIdle

InitConfig == InitConfigGD \/ InitConfigADMM

NextConfig == NextGD \/ NextADMM

SpecConfig == InitConfig /\ [][NextConfig]_vars

\* ------------------------------------------------------------------------
\* The ADMM loop entered with any values of w_tilde, w and y (the names are
\* module-level and keep whatever an earlier cell left in them)
\* ------------------------------------------------------------------------
StartVals == {R(-2), R(-1), Rat(-4, 5), Zero, Rat(2, 5), Rat(1, 2),
              Rat(6, 5), Rat(3, 2), R(2)}

InitADMMAny ==
    /\ admm_A \in ADMMData_A
    /\ admm_b \in ADMMData_b
    /\ rho \in {R(1), R(2)}
    /\ admm_eps = Rat(1, 4)
    /\ admm_max_iters = 1
    /\ w \in StartVals /\ w_tilde \in StartVals /\ admm_y \in StartVals
    /\ residual = Zero /\ residuals = <<>> /\ admm_k = -1
    /\ wt_status = "unsolved" /\ w_status = "unsolved" /\ solves = 0
    /\ admm_pc = "for" /\ admm_state = "Running" /\ runs = 1
    /\ results = <<>>
    /\ ProjIdle /\ HubIdle /\ GDIdle /\ SudIdle

SpecADMMAny == InitADMMAny /\ [][LoopADMM]_vars

\* ------------------------------------------------------------------------
\* Callers of the projector and of gradient_descent side by side: the
\* arguments they pass and what the calls leave of them
\* ------------------------------------------------------------------------
InitFrame == InitProj \/ InitGD

NextFrame == NextProj \/ NextGD

SpecFrame == InitFrame /\ [][NextFrame]_vars

\* ------------------------------------------------------------------------
\* Properties of project_onto_l1_ball
\* ------------------------------------------------------------------------
ProjDone == proj_pc = "done"
ProjValid == RLt(Zero, proj_N)
ProjInfeasibleArg == RLt(proj_N, Norm1(proj_x))
Dist2(a, b) == LET d == VSub(a, b) IN Dot(d, d)

\* C1: for every vector v and every radius N > 0 the projector returns a
\* vector whose L1 norm is at most N (exact arithmetic, no tolerance).
C1_Feasible ==
    (ProjDone /\ ProjValid) =>
        /\ proj_ret.status = "ok"
        /\ RLe(Norm1(proj_ret.value), proj_N)

C1_Witness ==
    /\ ProjDone /\ ProjValid /\ ProjInfeasibleArg
    /\ proj_calls = 1
    /\ proj_ret.status = "ok"
    /\ Len(proj_x) = 3

\* C2: for N > 0 the returned vector is the Euclidean-nearest point of the
\* L1 ball: it lies in the ball and no z with ||z||_1 <= N is strictly
\* closer to v.  Checked (a) against every candidate z among the integer
\* points of a box, the vertices +-N e_i of the ball and the midpoints of
\* its edges, and (b) by the variational inequality <v - p, z - p> <= 0 at
\* the vertices z of the ball, which by convexity extends to the whole ball
\* and is equivalent to p being the nearest point.
Vertex(n, i, c) == [j \in 1..n |-> IF j = i THEN c ELSE Zero]
BallVertices(n, radius) ==
    {Vertex(n, i, radius) : i \in 1..n}
        \cup {Vertex(n, i, RSub(Zero, radius)) : i \in 1..n}
EdgeMidpoints(n, radius) ==
    {VScale(Rat(1, 2), [j \in 1..n |-> RAdd(a[j], b[j])]) :
        a \in BallVertices(n, radius), b \in BallVertices(n, radius)}
BoxVals(n) == IF n <= 3 THEN {R(i) : i \in -2..2} ELSE {R(i) : i \in -1..1}
Candidates(n, radius) ==
    [1..n -> BoxVals(n)] \cup BallVertices(n, radius)
        \cup EdgeMidpoints(n, radius)

C2_Nearest ==
    (ProjDone /\ ProjValid) =>
        /\ proj_ret.status = "ok"
        /\ LET p == proj_ret.value
               best == Dist2(p, proj_x)
           IN  /\ RLe(Norm1(p), proj_N)
               /\ \/ best = Zero
                  \/ \A z \in Candidates(Len(proj_x), proj_N) :
                        RLe(Norm1(z), proj_N) => ~RLt(Dist2(z, proj_x), best)
               /\ \A z \in BallVertices(Len(proj_x), proj_N) :
                     RLe(Dot(VSub(proj_x, p), VSub(z, p)), Zero)

C2_Witness ==
    /\ ProjDone /\ ProjValid /\ ProjInfeasibleArg
    /\ proj_calls = 1
    /\ proj_ret.status = "ok"
    /\ proj_ret.rho = 2
    /\ Len(proj_x) = 3

\* C3: a vector with ||v||_1 <= N is returned itself, component for
\* component, and no threshold is computed.
C3_FastPath ==
    (ProjDone /\ RLe(Norm1(proj_x), proj_N)) =>
        /\ proj_ret.status = "ok"
        /\ proj_ret.value = proj_x
        /\ proj_ret.theta = NoVal
        /\ proj_ret.rho = NoRho

C3_Witness ==
    /\ ProjDone
    /\ proj_calls = 1
    /\ proj_x = <<R(1), R(1), R(1)>>
    /\ proj_N = R(10)
    /\ proj_ret.value = proj_x

\* C4: the projector is idempotent: projecting the vector returned by a
\* first projection returns that vector again (N > 0).
C4_Idempotent ==
    (ProjDone /\ ProjValid /\ proj_calls >= 2) =>
        /\ proj_ret.status = "ok"
        /\ proj_ret.value = proj_x

C4_Witness ==
    /\ ProjDone
    /\ proj_calls = 2
    /\ proj_N = R(5)
    /\ proj_x = <<Rat(8, 3), Rat(-5, 3), Rat(2, 3)>>
    /\ proj_ret.value = proj_x

\* C5: for every vector v and every radius N <= 0 the projector fails with
\* InvalidArgument: it neither returns a vector nor fails with another error.
C5_InvalidArgument ==
    (ProjDone /\ ~ProjValid) => proj_ret.status = "InvalidArgument"

\* ------------------------------------------------------------------------
\* Properties of huber_gradient
\* ------------------------------------------------------------------------
\* h'(u) = 2u for |u| <= 1 and 2 sign(u) for |u| > 1, written by cases
HPrime(u) ==
    IF RLt(R(1), u) THEN R(2)
    ELSE IF RLt(u, R(-1)) THEN R(-2)
    ELSE RAdd(u, u)

HubResidual == [i \in 1..Len(hub_A) |-> RSub(Dot(hub_A[i], hub_x), hub_y[i])]

\* C6: huber_gradient(A, x, y) = A^T h'(A x - y) with h' applied per
\* residual component; h'(0) = 0 and residuals [0.5, 2, -2] map to
\* [1, 2, -2].
C6_HuberGradient ==
    (hub_pc = "done") =>
        /\ Len(hub_ret) = Len(hub_x)
        /\ \A j \in 1..Len(hub_x) :
              hub_ret[j] = VSum([i \in 1..Len(hub_A) |->
                                    RMul(hub_A[i][j], HPrime(HubResidual[i]))])
        /\ (\A i \in 1..Len(hub_A) : HubResidual[i] = Zero)
              => \A j \in 1..Len(hub_x) : hub_ret[j] = Zero
        /\ (hub_A = Identity3 /\ HubResidual = <<Rat(1, 2), R(2), R(-2)>>)
              => hub_ret = <<R(1), R(2), R(-2)>>

C6_Witness ==
    /\ hub_pc = "done"
    /\ hub_A = Identity3
    /\ hub_x = <<Rat(1, 2), R(2), R(-2)>>
    /\ hub_y = <<Zero, Zero, Zero>>
    /\ hub_ret = <<R(1), R(2), R(-2)>>

\* ------------------------------------------------------------------------
\* Properties of gradient_descent
\* ------------------------------------------------------------------------
\* Number of loop bodies that have run to their end
IterationsCompleted == IF pc \in {"grad", "step", "project"} THEN k ELSE k + 1

GradBelowTolerance == Norm2Lt(grad, tolerance)

\* C7: after every completed iteration (gradient, step, projection) the
\* current iterate satisfies ||x||_1 <= N.
C7_IterateFeasible ==
    (IterationsCompleted >= 1 /\ pc # "project") => RLe(Norm1(x), N)

C7_Witness ==
    /\ pc = "test"
    /\ k >= 1
    /\ Norm1(x) = N
    /\ RLt(N, Norm1(caller_x))

\* C8: the vector returned by gradient_descent is always feasible, for
\* every starting point, every budget K >= 0 and in both terminal states.
C8_ReturnFeasible ==
    (pc = "done") => RLe(Norm1(gd_ret.x), N)

\* The statements of the function: each one is executable whenever control
\* is at it (the actions have no other guard)
Statements == {"for", "grad", "step", "project", "test", "return"}

\* Upper bound on the number of statements still to be executed
StepsLeft ==
    LET rest == 5 * (max_iters - (k + 1)) + 2 IN
    CASE pc = "for" -> rest
      [] pc = "grad" -> rest + 4
      [] pc = "step" -> rest + 3
      [] pc = "project" -> rest + 2
      [] pc = "test" -> rest + 1
      [] pc = "return" -> 1
      [] OTHER -> 0

\* C9: gradient_descent terminates after at most K iterations in exactly
\* one of the terminal states: Converged at the first iteration whose
\* gradient norm is below the tolerance, BudgetExhausted after exactly K
\* iterations none of which passed the test; once a terminal state is
\* reached no gradient, step or projection is performed.  Termination is
\* stated by a measure: every statement decreases StepsLeft, which is
\* never negative, and control is at a statement until the return.  The
\* state part is asserted of every state that takes a step; the state after
\* the return differs from the one before it in pc and gd_ret only.
C9_State ==
    /\ state \in {"Running", "Converged", "BudgetExhausted"}
    /\ IterationsCompleted <= max_iters /\ k < max_iters
    /\ StepsLeft >= 0
    /\ pc # "done" => pc \in Statements
    /\ pc = "done" => state # "Running"
    /\ (pc = "for" /\ k >= 0) => ~GradBelowTolerance
    /\ state = "Converged" =>
          /\ k >= 0 /\ k < max_iters
          /\ GradBelowTolerance
    /\ state = "BudgetExhausted" =>
          /\ IterationsCompleted = max_iters
          /\ (k >= 0 => ~GradBelowTolerance)

C9_Termination ==
    [][/\ C9_State
       /\ StepsLeft' < StepsLeft
       /\ StepsLeft' >= 0
       /\ pc' # "done" => pc' \in Statements
       /\ pc' = "done" => state' # "Running"
       /\ state # "Running" =>
            /\ state' = state /\ x' = x /\ grad' = grad /\ k' = k
            /\ pc' \in {"return", "done"}]_vars

C9_Witness ==
    /\ pc = "done"
    /\ state = "Converged"
    /\ k >= 1
    /\ k + 1 < max_iters

\* C10: gradient_descent hands its caller the final iterate, the iteration
\* count at termination and the terminal state, so the caller can tell
\* Converged from BudgetExhausted by the return value alone.
C10_ReturnsTriple ==
    (pc = "done") =>
        /\ DOMAIN gd_ret = {"x", "iterations", "state"}
        /\ gd_ret.x = x
        /\ gd_ret.iterations = IterationsCompleted
        /\ gd_ret.state = state

\* ------------------------------------------------------------------------
\* Properties of the ADMM loop
\* ------------------------------------------------------------------------
\* The joint minimiser of f + g: the root of A (A u - b) + u = 0
WStar == RDiv(RMul(admm_A, admm_b), RAdd(RMul(admm_A, admm_A), R(1)))
ADMMFirstRunDone == admm_pc = "done" /\ runs = 1
LastResidual == residuals[Len(residuals)]

\* C11: for scalar quadratics f(u) = (a u - b)^2 / 2, g(u) = u^2 / 2, exact
\* sub-solves, rho > 0 and eps > 0, the loop started from w_tilde = w = 0,
\* y = 0 leaves through the residual test within MaxADMMIters iterations
\* whenever its budget allows that many; and whenever it leaves through the
\* test, the last residual is below eps and w is within max(1, rho^2) * eps
\* of the joint minimiser a b / (a^2 + 1).
C11_ADMMConverges ==
    ADMMFirstRunDone =>
        /\ RLt(Zero, rho) /\ RLt(Zero, admm_eps)
        /\ admm_max_iters >= MaxADMMIters => admm_state = "Converged"
        /\ admm_state = "Converged" =>
              /\ Len(residuals) = admm_k + 1
              /\ Len(residuals) <= MaxADMMIters
              /\ RLt(LastResidual, admm_eps)
              /\ RLe(RAbs(RSub(w, WStar)),
                     RMul(admm_eps, RMax(R(1), RMul(rho, rho))))

C11_Witness ==
    /\ ADMMFirstRunDone
    /\ admm_state = "Converged"
    /\ Len(residuals) >= 3
    /\ WStar # Zero
    /\ w # WStar

\* C12: a sub-solve that fails stops the loop with the SubproblemFailed
\* condition (which names the failing block, w_tilde or w, and the
\* iteration index); the next update, the dual update and the residual
\* computation are not performed after it.
SubSolveFailed == wt_status \notin {"unsolved", "optimal"}
                    \/ w_status \notin {"unsolved", "optimal"}

C12_SubproblemFailed ==
    SubSolveFailed =>
        /\ admm_pc = "raised"
        /\ admm_state = "SubproblemFailed"

\* C13: an invalid configuration is rejected at entry with InvalidArgument
\* before any iteration work: with rho <= 0 the ADMM loop invokes no
\* sub-solve and performs no dual update (it is either not yet entered or
\* stopped with InvalidArgument), and with N <= 0 gradient_descent computes
\* no gradient and takes no step.
C13_RejectedAtEntry ==
    /\ (admm_pc # "idle" /\ RLe(rho, Zero)) =>
          /\ solves = 0
          /\ admm_y = Zero
          /\ \/ admm_pc = "for" /\ admm_k = -1
             \/ admm_pc = "raised" /\ admm_state = "InvalidArgument"
    /\ (pc # "idle" /\ RLe(cfg_N, Zero)) =>
          /\ grad = <<>>
          /\ x = caller_x
          /\ \/ pc = "for" /\ k = -1
             \/ pc = "raised" /\ state = "InvalidArgument"

\* C14: solves are independent: executing the ADMM loop twice in succession
\* with the same inputs (A, b, rho, threshold, budget) leaves the same
\* result both times (primal iterates, dual variable, residual history);
\* nothing of the earlier execution is carried into the later one.
C14_IndependentSolves ==
    \A i \in 1..Len(results) : results[i] = results[1]

\* ------------------------------------------------------------------------
\* The Sudoku integer program (src/sudoku.ipynb).  sud_x is x.value, a
\* num_cells x n matrix of 0/1 entries; rows and columns are numbered from
\* 0 as in the notebook, so entry x[c, k] is sud_x[c + 1][k + 1].
\* ------------------------------------------------------------------------
RECURSIVE SumTo(_, _)
SumTo(s, i) == IF i = 0 THEN 0 ELSE SumTo(s, i - 1) + s[i]
Sum(s) == SumTo(s, Len(s))

\* n = np.size(initial_grid, 1); num_cells = n * n
n == Len(initial_grid[1])
num_cells == n * n

\* def cell_index(i, j): return i * n + j
cell_index(i, j) == i * n + j

Entry(xv, c, kk) == xv[c + 1][kk + 1]

\* cp.sum(x[cell, :]) == 1 for every cell
CellConstraints(xv) ==
    \A cell \in 0..(num_cells - 1) : Sum(xv[cell + 1]) = 1

\* every number once in every row
RowConstraints(xv) ==
    \A i \in 0..(n - 1), kk \in 0..(n - 1) :
        Sum([j \in 1..n |-> Entry(xv, cell_index(i, j - 1), kk)]) = 1

\* every number once in every column
ColumnConstraints(xv) ==
    \A j \in 0..(n - 1), kk \in 0..(n - 1) :
        Sum([i \in 1..n |-> Entry(xv, cell_index(i - 1, j), kk)]) = 1

\* every number once in every 3 x 3 subgrid; I, J in range(0, n, 3)
SubgridUnconstrained(xv) == TRUE

SubgridConstraints(xv) ==
    \A I \in {c \in 0..(n - 1) : c % 3 = 0},
       J \in {c \in 0..(n - 1) : c % 3 = 0}, kk \in 0..(n - 1) :
        Sum([d \in 1..9 |->
               Entry(xv, cell_index(I + ((d - 1) \div 3), J + ((d - 1) % 3)),
                     kk)]) = 1

\* x[cell_index(i, j), initial_grid[i][j] - 1] == 1 for the given cells
InitialConditions(xv, grid) ==
    \A i \in 0..(n - 1), j \in 0..(n - 1) :
        grid[i + 1][j + 1] # 0 =>
            Entry(xv, cell_index(i, j), grid[i + 1][j + 1] - 1) = 1

constraints(xv, grid) ==
    /\ CellConstraints(xv)
    /\ RowConstraints(xv)
    /\ ColumnConstraints(xv)
    /\ SubgridConstraints(xv)
    /\ InitialConditions(xv, grid)

\* The extraction loop: for k in range(n): if x[...] > 0.5: solution[i, j] = k + 1
\* on a zero matrix, so the last such k wins and a cell without one stays 0
Extraction(xv) ==
    [i \in 1..n |-> [j \in 1..n |->
        LET ks == {kk \in 0..(n - 1) :
                      Entry(xv, cell_index(i - 1, j - 1), kk) = 1}
        IN  IF ks = {} THEN 0 ELSE SetMax(ks) + 1]]

\* The puzzle of the notebook and the grid it prints
NotebookGrid ==
    << <<5, 3, 0, 0, 7, 0, 0, 0, 0>>,
       <<6, 0, 0, 1, 9, 5, 0, 0, 0>>,
       <<0, 9, 8, 0, 0, 0, 0, 6, 0>>,
       <<8, 0, 0, 0, 6, 0, 0, 0, 3>>,
       <<4, 0, 0, 8, 0, 3, 0, 0, 1>>,
       <<7, 0, 0, 0, 2, 0, 0, 0, 6>>,
       <<0, 6, 0, 0, 0, 0, 2, 8, 0>>,
       <<0, 0, 0, 4, 1, 9, 0, 0, 5>>,
       <<0, 0, 0, 0, 8, 0, 0, 7, 9>> >>

SolvedGrid ==
    << <<5, 3, 4, 6, 7, 8, 9, 1, 2>>,
       <<6, 7, 2, 1, 9, 5, 3, 4, 8>>,
       <<1, 9, 8, 3, 4, 2, 5, 6, 7>>,
       <<8, 5, 9, 7, 6, 1, 4, 2, 3>>,
       <<4, 2, 6, 8, 5, 3, 7, 9, 1>>,
       <<7, 1, 3, 9, 2, 4, 8, 5, 6>>,
       <<9, 6, 1, 5, 3, 7, 2, 8, 4>>,
       <<2, 8, 7, 4, 1, 9, 6, 3, 5>>,
       <<3, 4, 5, 2, 8, 6, 1, 7, 9>> >>

\* Grids derived from it: numbers renamed cyclically, transposed, two rows
\* or two cells exchanged
Side == 1..Len(SolvedGrid)
Relabel(G, s) ==
    [i \in Side |-> [j \in Side |-> ((G[i][j] - 1 + s) % Len(G)) + 1]]
Transpose(G) == [i \in Side |-> [j \in Side |-> G[j][i]]]
SwapRows(G, r1, r2) ==
    [i \in Side |-> IF i = r1 THEN G[r2] ELSE IF i = r2 THEN G[r1] ELSE G[i]]
SwapCells(G, i1, j1, i2, j2) ==
    [i \in Side |-> [j \in Side |->
        IF i = i1 /\ j = j1 THEN G[i2][j2]
        ELSE IF i = i2 /\ j = j2 THEN G[i1][j1]
        ELSE G[i][j]]]
Blank == [i \in Side |-> [j \in Side |-> 0]]
Clue(i0, j0, d) ==
    [i \in Side |-> [j \in Side |-> IF i = i0 /\ j = j0 THEN d ELSE 0]]

\* The 0/1 matrix that has a one exactly at the number of each cell
Encode(G) ==
    [c \in 1..(Len(G) * Len(G)) |-> [kk \in 1..Len(G) |->
        IF G[((c - 1) \div Len(G)) + 1][((c - 1) % Len(G)) + 1] = kk
          THEN 1 ELSE 0]]
\* xv with the one of number d moved from cell (i1, j1) to cell (i2, j2),
\* rows, columns and numbers counted from 1
MoveOne(xv, i1, j1, i2, j2, d) ==
    [c \in 1..Len(xv) |-> [kk \in 1..Len(xv[c]) |->
        IF kk = d /\ c = (i1 - 1) * Len(xv[c]) + j1 THEN 0
        ELSE IF kk = d /\ c = (i2 - 1) * Len(xv[c]) + j2 THEN 1
        ELSE xv[c][kk]]]

\* Rows 1 and 4 hold 6 7 and 7 6 in columns 4 and 5: exchanging them gives
\* another valid grid
Exchanged == SwapCells(SwapCells(SolvedGrid, 1, 4, 1, 5), 4, 4, 4, 5)
FullGrids ==
    {Relabel(SolvedGrid, s) : s \in 0..8}
        \cup {Relabel(Transpose(SolvedGrid), s) : s \in 0..8}
        \cup {Exchanged,
              SwapRows(SolvedGrid, 1, 4),        \* subgrids repeat numbers
              SwapCells(SolvedGrid, 1, 1, 1, 2), \* columns repeat numbers
              SwapCells(SolvedGrid, 1, 1, 2, 1)} \* rows repeat numbers

\* The 0/1 matrices the integer solver may come back with
Assignments ==
    {Encode(G) : G \in FullGrids}
        \cup {\* two numbers in cell (1, 4) and in cell (4, 5), none in
              \* (1, 5) and (4, 4); rows, columns and subgrids are complete
              MoveOne(MoveOne(Encode(SolvedGrid), 1, 5, 1, 4, 7),
                      4, 4, 4, 5, 7),
              Encode(Blank)}

Puzzles ==
    {NotebookGrid, Blank}
        \cup {Clue(c, c, d) : c \in {1, 5, 9}, d \in Side}
        \cup {SwapCells(Clue(1, 1, 5), 1, 2, 1, 1),
              [Clue(1, 1, 5) EXCEPT ![1][2] = 5]}   \* 5 twice in a row

InitSudoku ==
    /\ initial_grid \in Puzzles
    /\ sud_x = <<>>
    /\ sud_status = "unsolved"
    /\ solution = <<>>
    /\ sud_pc = "solve"
    /\ ProjIdle /\ HubIdle /\ GDIdle /\ ADMMIdle

\* problem.solve(solver=cp.CBC): a feasible assignment, or infeasibility
Sud_Solve ==
    /\ sud_pc = "solve"
    /\ LET feasible == {xv \in Assignments : constraints(xv, initial_grid)} IN
         IF feasible # {}
           THEN /\ sud_x' \in feasible
                /\ sud_status' = "optimal"
           ELSE /\ sud_status' = "infeasible"
                /\ UNCHANGED sud_x
    /\ sud_pc' = "extract"
    /\ UNCHANGED <<initial_grid, solution, proj_vars, hub_vars, gd_vars,
                   admm_vars>>

\* if problem.status == cp.OPTIMAL: extract the grid, else report
Sud_Extract ==
    /\ sud_pc = "extract"
    /\ IF sud_status = "optimal"
         THEN solution' = Extraction(sud_x)
         ELSE UNCHANGED solution
    /\ sud_pc' = "done"
    /\ UNCHANGED <<initial_grid, sud_x, sud_status, proj_vars, hub_vars,
                   gd_vars, admm_vars>>

NextSudoku == Sud_Solve \/ Sud_Extract

SpecSudoku == InitSudoku /\ [][NextSudoku]_vars

\* ------------------------------------------------------------------------
\* Properties of the Sudoku program
\* ------------------------------------------------------------------------
\* C15: every 0/1 assignment that satisfies the constraint set (cell, row,
\* column, subgrid and pre-filled constraints) is decoded by the extraction
\* loop to a grid in which every cell holds one number of 1..n, every number
\* appears exactly once in each row, each column and each 3 x 3 subgrid, and
\* every pre-filled cell of initial_grid keeps its number.
Once(cells) ==
    \A d \in 1..n :
        Cardinality({c \in cells : solution[c[1]][c[2]] = d}) = 1
Boxes == {{<<i, j>> \in (1..n) \X (1..n) :
              (i - 1) \div 3 = bi /\ (j - 1) \div 3 = bj} :
                 bi \in 0..((n \div 3) - 1), bj \in 0..((n \div 3) - 1)}

C15_DecodedGridValid ==
    (sud_pc = "done" /\ sud_status = "optimal") =>
        /\ \A i \in 1..n, j \in 1..n : solution[i][j] \in 1..n
        /\ \A i \in 1..n : Once({<<i, j>> : j \in 1..n})
        /\ \A j \in 1..n : Once({<<i, j>> : i \in 1..n})
        /\ \A box \in Boxes : Once(box)
        /\ \A i \in 1..n, j \in 1..n :
              initial_grid[i][j] # 0 => solution[i][j] = initial_grid[i][j]

C15_Witness ==
    /\ sud_pc = "done" /\ sud_status = "optimal"
    /\ initial_grid = NotebookGrid
    /\ solution = SolvedGrid

\* ------------------------------------------------------------------------
\* The general path of the projector, stated independently of its code:
\* Magnitude(u, i) is the i-th largest entry of u, counted with repetitions
\* ------------------------------------------------------------------------
Magnitude(u, i) ==
    CHOOSE t \in {u[j] : j \in 1..Len(u)} :
        /\ Cardinality({j \in 1..Len(u) : RLt(t, u[j])}) < i
        /\ i <= Cardinality({j \in 1..Len(u) : RLe(t, u[j])})
Sorted(u) == [i \in 1..Len(u) |-> Magnitude(u, i)]
\* (s[1] + ... + s[i] - N) / i
Level(sv, i, radius) == RDiv(RSub(VSumTo(sv, i), radius), R(i))
Passing(sv, radius) ==
    {i \in 1..Len(sv) : RLt(Zero, RSub(sv[i], Level(sv, i, radius)))}
Shrink(v, theta) ==
    [j \in 1..Len(v) |->
        RMul(RSign(v[j]), RMax(RSub(RAbs(v[j]), theta), Zero))]

\* C16: for every v with ||v||_1 > N and N > 0 the projector returns
\* sign(v[j]) * max(|v[j]| - theta, 0) in every component, where s is |v|
\* in descending order, the index is the largest i with
\* s[i] - (s[1] + ... + s[i] - N) / i > 0 and theta is
\* (s[1] + ... + s[index] - N) / index; for v = [4, -3, 2] and N = 5 this
\* is theta = 4/3 and the output [8/3, -5/3, 2/3].
C16_GeneralPath ==
    (ProjDone /\ ProjValid /\ ProjInfeasibleArg) =>
        LET sv == Sorted(VAbs(proj_x))
            top == SetMax(Passing(sv, proj_N))
            theta == Level(sv, top, proj_N)
        IN  /\ proj_ret.status = "ok"
            /\ Passing(sv, proj_N) # {}
            /\ proj_ret.rho = top
            /\ proj_ret.theta = theta
            /\ proj_ret.value = Shrink(proj_x, theta)
            /\ (proj_x = <<R(4), R(-3), R(2)>> /\ proj_N = R(5)) =>
                  /\ proj_ret.theta = Rat(4, 3)
                  /\ proj_ret.value = <<Rat(8, 3), Rat(-5, 3), Rat(2, 3)>>

C16_Witness ==
    /\ ProjDone
    /\ proj_x = <<R(4), R(-3), R(2)>> /\ proj_N = R(5)
    /\ proj_ret.status = "ok"
    /\ proj_ret.rho = 3
    /\ proj_ret.value = <<Rat(8, 3), Rat(-5, 3), Rat(2, 3)>>

\* C17: the result does not depend on the order of the coordinates: for
\* every v, N > 0 and every permutation pi,
\* project_onto_l1_ball(pi(v), N) = pi(project_onto_l1_ball(v, N)), and
\* coordinates of v of equal absolute value get outputs of equal absolute
\* value.  Checked for every exchange of two coordinates; every permutation
\* is a product of exchanges and the equality is checked for every v.
Exchange(v, i, j) ==
    [c \in 1..Len(v) |-> IF c = i THEN v[j] ELSE IF c = j THEN v[i] ELSE v[c]]

C17_OrderIndependent ==
    (ProjDone /\ ProjValid) =>
        /\ proj_ret.status = "ok"
        /\ \A i \in 1..Len(proj_x), j \in 1..Len(proj_x) :
              LET q == project_onto_l1_ball(Exchange(proj_x, i, j), proj_N)
              IN  /\ q.status = "ok"
                  /\ q.value = Exchange(proj_ret.value, i, j)
        /\ \A i \in 1..Len(proj_x), j \in 1..Len(proj_x) :
              RAbs(proj_x[i]) = RAbs(proj_x[j]) =>
                  RAbs(proj_ret.value[i]) = RAbs(proj_ret.value[j])

C17_Witness ==
    /\ ProjDone /\ ProjValid /\ ProjInfeasibleArg
    /\ proj_calls = 1
    /\ proj_x = <<Rat(1, 2), R(2), R(-2)>>
    /\ proj_ret.status = "ok"
    /\ proj_ret.rho = 2
    /\ proj_ret.value[2] # Zero

\* ------------------------------------------------------------------------
\* The derivative used by huber_gradient
\* ------------------------------------------------------------------------
\* Residual values around the seam against which the residuals of a call
\* are compared
SeamVals ==
    {R(-3), R(-2), Rat(-3, 2), Rat(-9, 8), R(-1), Rat(-7, 8), Rat(-1, 2),
     Zero, Rat(1, 2), Rat(7, 8), R(1), Rat(9, 8), Rat(3, 2), R(2), R(3)}

\* C18: the derivative h' applied by huber_gradient to each residual is
\* continuous at the seam |u| = 1 (there both branches, 2 u and
\* 2 sign(u), give +-2), is bounded by |h'(u)| <= 2 and is Lipschitz with
\* constant 2: |h'(a) - h'(b)| <= 2 |a - b|.
C18_HuberLipschitz ==
    (hub_pc = "done") =>
        \A i \in 1..Len(HubResidual) :
            LET a == HubResidual[i]
                ha == HuberWhere(a)
            IN  /\ RLe(RAbs(ha), R(2))
                /\ RAbs(a) = R(1) =>
                      /\ ha = RMul(R(2), a)
                      /\ ha = RMul(R(2), RSign(a))
                      /\ RAbs(ha) = R(2)
                /\ \A b \in SeamVals \cup
                              {HubResidual[j] : j \in 1..Len(HubResidual)} :
                      RLe(RAbs(RSub(ha, HuberWhere(b))),
                          RMul(R(2), RAbs(RSub(a, b))))

C18_Witness ==
    /\ hub_pc = "done"
    /\ Len(HubResidual) = 2
    /\ HubResidual[1] = R(1)
    /\ RLt(HubResidual[2], R(-1))
    /\ hub_ret # <<Zero, Zero>>

\* ------------------------------------------------------------------------
\* Order of gradient, step, projection and test in gradient_descent
\* ------------------------------------------------------------------------
\* Project(x_k - step_size * g, N)
Stepped(gk) == project_onto_l1_ball(VSub(x_k, VScale(step_size, gk)), N)

\* C19: in each iteration the convergence test uses the gradient g_k
\* computed at the iterate x_k the iteration began with, and is evaluated
\* only after the step x_k - step_size * g_k and the projection have been
\* applied: whenever control is at the test, or the loop was left as
\* Converged, grad is the gradient at x_k and x is
\* Project(x_k - step_size * g_k, N); that x is what Converged returns.
C19_TestAfterStep ==
    /\ (pc = "test" \/ (pc \in {"return", "done"} /\ state = "Converged")) =>
          /\ grad = huber_gradient(A, x_k, y)
          /\ Stepped(grad).status = "ok"
          /\ x = Stepped(grad).value
    /\ (pc \in {"return", "done"} /\ state = "Converged") =>
          Norm2Lt(huber_gradient(A, x_k, y), tolerance)
    /\ (pc = "done" /\ state = "Converged") =>
          gd_ret.x = Stepped(huber_gradient(A, x_k, y)).value

C19_Witness ==
    /\ pc = "done" /\ state = "Converged"
    /\ k >= 1
    /\ gd_ret.x # x_k
    /\ grad # huber_gradient(A, gd_ret.x, y)

\* ------------------------------------------------------------------------
\* The w update.  Control is at the dual update right after it: w is the
\* new value, w_tilde the one just produced by the w_tilde update, and
\* admm_y still the dual variable from before this iteration.
\* ------------------------------------------------------------------------
AfterWUpdate == admm_pc = "dual"
\* Derivative at u of g(u) + (rho / 2) (u - w_tilde + sgn * y / rho)^2,
\* a convex quadratic in u: u is its minimiser iff the derivative is 0
WObjectiveSlope(u, sgn) ==
    RAdd(u, RAdd(RMul(rho, RSub(u, w_tilde)), RMul(R(sgn), admm_y)))
Minimises(u, sgn) ==
    /\ WObjectiveSlope(u, sgn) = Zero
    /\ \A d \in {Rat(1, 2), R(1)} :
          /\ RLt(WObjectiveSlope(RSub(u, d), sgn), Zero)
          /\ RLt(Zero, WObjectiveSlope(RAdd(u, d), sgn))

\* C20 as stated: the w update computes the minimiser over u of
\* g(u) + (rho / 2) (u - w_tilde + y / rho)^2, the dual term added as in
\* the w_tilde update.
C20_DualTermAdded == AfterWUpdate => Minimises(w, 1)

\* C20: the w update computes the minimiser over u of
\* g(u) + (rho / 2) (u - w_tilde - y / rho)^2, the dual term subtracted
\* (the opposite sign to the w_tilde update), with the w_tilde just
\* produced and the dual variable from before this iteration.
C20_DualTermSubtracted == AfterWUpdate => Minimises(w, -1)

C20_Witness ==
    /\ AfterWUpdate
    /\ admm_k >= 1
    /\ admm_y # Zero
    /\ w # Zero
    /\ ~Minimises(w, 1)

\* ------------------------------------------------------------------------
\* Order of the steps of one ADMM iteration
\* ------------------------------------------------------------------------
\* Derivative at u of f(u) + (rho / 2) (u - w + y / rho)^2 with
\* f(u) = (A u - b)^2 / 2, a convex quadratic in u
WTildeObjectiveSlope(u) ==
    RAdd(RMul(admm_A, RSub(RMul(admm_A, u), admm_b)),
         RAdd(RMul(rho, RSub(u, w)), admm_y))

\* C21: each iteration performs its steps in a fixed order on fresh values:
\* the w_tilde update minimises over the w and y of the previous iteration
\* and changes neither; the w update follows it, minimises over the w_tilde
\* just computed and the y of the previous iteration and changes neither;
\* only then the dual update sets y to y + rho (w_tilde - w) with both new
\* primal values; nothing else changes w_tilde, w or y, and each step is
\* entered only from the one before it, once per iteration.
C21_StepOrder ==
    [][/\ (admm_pc = "w_tilde" /\ admm_pc' = "w") =>
             /\ WTildeObjectiveSlope(w_tilde') = Zero
             /\ w' = w /\ admm_y' = admm_y
       /\ admm_pc = "w" =>
             /\ admm_pc' = "dual"
             /\ WObjectiveSlope(w', -1) = Zero
             /\ w_tilde' = w_tilde /\ admm_y' = admm_y
       /\ admm_pc = "dual" =>
             /\ admm_pc' = "residual"
             /\ admm_y' = RAdd(admm_y, RMul(rho, RSub(w_tilde, w)))
             /\ w_tilde' = w_tilde /\ w' = w
       /\ w_tilde' # w_tilde => admm_pc = "w_tilde"
       /\ w' # w => admm_pc = "w"
       /\ admm_y' # admm_y => admm_pc = "dual"
       /\ admm_pc' = "w_tilde" => (admm_pc = "for" /\ admm_k' = admm_k + 1)
       /\ admm_pc' = "w" => admm_pc = "w_tilde"
       /\ admm_pc' = "dual" => admm_pc = "w"
       /\ admm_pc' = "residual" => admm_pc = "dual"
      ]_vars

C21_Witness ==
    /\ admm_pc = "residual"
    /\ admm_k >= 1
    /\ admm_y # Zero
    /\ w # w_tilde
    /\ admm_y = w

\* ------------------------------------------------------------------------
\* The residual history of one execution of the loop
\* ------------------------------------------------------------------------
\* Iterations of the current execution whose residual statement has run
ResidualsDue ==
    IF admm_pc \in {"w_tilde", "w", "dual", "residual"}
      THEN admm_k ELSE admm_k + 1
HistoryShape ==
    /\ Len(residuals) = ResidualsDue
    /\ Len(residuals) <= admm_max_iters
    /\ admm_max_iters = 0 => residuals = <<>>
    /\ (admm_pc \in {"test", "for", "done"} /\ residuals # <<>>) =>
          residuals[Len(residuals)] = RAbs(RSub(w, w_tilde))

\* C22: at every point of an ADMM solve the residual history has exactly
\* one entry per iteration executed so far (empty when K = 0, never longer
\* than K); it changes only by appending, at the residual statement, the
\* value |w - w_tilde| of the primal values of that iteration, and the
\* earlier entries stay as they are.
C22_ResidualHistory ==
    [][/\ HistoryShape
       /\ HistoryShape'
       /\ runs' = runs =>
             \/ residuals' = residuals
             \/ /\ admm_pc = "residual"
                /\ Len(residuals') = Len(residuals) + 1
                /\ SubSeq(residuals', 1, Len(residuals)) = residuals
                /\ residuals'[Len(residuals')] = RAbs(RSub(w, w_tilde))
                /\ w' = w /\ w_tilde' = w_tilde
      ]_vars

C22_Witness ==
    /\ admm_pc = "test"
    /\ Len(residuals) >= 3
    /\ residuals[1] # residuals[2]
    /\ residuals[Len(residuals)] # Zero

\* ------------------------------------------------------------------------
\* How the ADMM loop stops
\* ------------------------------------------------------------------------
BelowEps(i) == RLt(residuals[i], admm_eps)
ResidualBelowEpsRecorded == residuals # <<>> /\ BelowEps(Len(residuals))
StoppedRight ==
    /\ \A i \in 1..(Len(residuals) - 1) : ~BelowEps(i)
    /\ admm_pc \in {"for", "w_tilde", "w", "dual", "residual"} =>
          /\ ~ResidualBelowEpsRecorded
          /\ admm_state = "Running"
    /\ admm_pc = "done" =>
          \/ /\ admm_state = "Converged"
             /\ ResidualBelowEpsRecorded
             /\ Len(residuals) = admm_k + 1
          \/ /\ admm_state = "BudgetExhausted"
             /\ ~ResidualBelowEpsRecorded
             /\ Len(residuals) = admm_max_iters

\* C23: the loop stops as Converged at the first iteration whose residual
\* is below eps and otherwise as BudgetExhausted after exactly K
\* iterations; every recorded residual except possibly the last is >= eps,
\* and once a residual below eps has been recorded the only step of that
\* execution is the one that leaves the loop as Converged: no sub-solve and
\* no dual update follows.
C23_Stopping ==
    [][/\ StoppedRight
       /\ StoppedRight'
       /\ (ResidualBelowEpsRecorded /\ runs' = runs) =>
             /\ admm_pc = "test"
             /\ admm_pc' = "done"
             /\ admm_state' = "Converged"
             /\ solves' = solves
             /\ admm_y' = admm_y /\ w' = w /\ w_tilde' = w_tilde
       /\ admm_pc' = "done" =>
             \/ admm_state' = "Converged" /\ admm_pc = "test"
             \/ /\ admm_state' = "BudgetExhausted"
                /\ admm_k + 1 = admm_max_iters
                /\ Len(residuals') = admm_max_iters
      ]_vars

C23_Witness ==
    /\ admm_pc = "done"
    /\ admm_state = "Converged"
    /\ Len(residuals) >= 2
    /\ Len(residuals) < admm_max_iters
    /\ runs = 1

\* ------------------------------------------------------------------------
\* Frame conditions
\* ------------------------------------------------------------------------
\* C24: inputs are never mutated: no step of gradient_descent changes the
\* operator A, the observation y or the caller's starting vector, for every
\* budget, and a call of project_onto_l1_ball returns with its argument
\* vector as it was, on the fast path and on the general path.
C24_InputsUnchanged ==
    [][/\ A' = A
       /\ y' = y
       /\ caller_x' = caller_x
       /\ proj_pc = "call" =>
             /\ proj_pc' = "done"
             /\ proj_x' = proj_x
             /\ proj_N' = proj_N
      ]_vars

C24_Witness ==
    /\ pc = "done"
    /\ k >= 1
    /\ gd_ret.x # caller_x
    /\ x # caller_x
    /\ Norm1(caller_x) # Zero

\* ------------------------------------------------------------------------
\* The general path of the projector: qualifying indices, threshold, output
\* ------------------------------------------------------------------------
ProjGeneralCase == ProjDone /\ ProjValid /\ ProjInfeasibleArg
SortedArg == Sorted(VAbs(proj_x))

\* C25: for N > 0 and ||v||_1 > N the general path always finds a
\* qualifying index: index 1 passes because s[1] - (s[1] - N) / 1 = N > 0,
\* so the selection of the last qualifying index is never made on an empty
\* selection and the projector raises no error.
C25_IndexFound ==
    ProjGeneralCase =>
        /\ RSub(SortedArg[1], Level(SortedArg, 1, proj_N)) = proj_N
        /\ 1 \in Passing(SortedArg, proj_N)
        /\ proj_ret.status = "ok"
        /\ proj_ret.rho \in Passing(SortedArg, proj_N)

C25_Witness ==
    /\ ProjGeneralCase
    /\ proj_calls = 1
    /\ Len(proj_x) = 3
    /\ Passing(SortedArg, proj_N) = {1}
    /\ proj_ret.status = "ok"
    /\ proj_ret.rho = 1

\* C26: on the general path the indices that pass the test
\* s[i] - (s[1] + ... + s[i] - N) / i > 0 form a prefix of the sorted
\* magnitudes: below a passing index every index passes, so the largest
\* qualifying index, which the projector selects, is the number of
\* qualifying indices.
C26_PrefixOfPassing ==
    ProjGeneralCase =>
        LET pass == Passing(SortedArg, proj_N) IN
        /\ \A i \in pass : \A j \in 1..i : j \in pass
        /\ pass = 1..Cardinality(pass)
        /\ proj_ret.status = "ok"
        /\ proj_ret.rho = Cardinality(pass)

C26_Witness ==
    /\ ProjGeneralCase
    /\ proj_calls = 1
    /\ Len(proj_x) = 3
    /\ Passing(SortedArg, proj_N) = {1, 2}
    /\ proj_ret.rho = 2
    /\ SortedArg[3] # Zero

\* C27: for N > 0 and ||v||_1 > N the threshold theta is strictly positive
\* and the returned vector lies on the boundary of the ball: its L1 norm
\* equals N exactly.
C27_OnBoundary ==
    ProjGeneralCase =>
        /\ proj_ret.status = "ok"
        /\ proj_ret.theta # NoVal
        /\ RLt(Zero, proj_ret.theta)
        /\ Norm1(proj_ret.value) = proj_N

C27_Witness ==
    /\ ProjGeneralCase
    /\ proj_calls = 1
    /\ Len(proj_x) = 3
    /\ proj_ret.status = "ok"
    /\ proj_ret.rho = 3
    /\ proj_ret.theta = Rat(1, 3)
    /\ Norm1(proj_ret.value) = proj_N

\* C28: for every v and N > 0 the projector only shrinks components toward
\* zero: each output component is zero or has the sign of the matching
\* input component, its absolute value is at most that of the input
\* component, and the order of magnitudes is kept.
C28_ShrinksTowardZero ==
    (ProjDone /\ ProjValid) =>
        /\ proj_ret.status = "ok"
        /\ Len(proj_ret.value) = Len(proj_x)
        /\ \A i \in 1..Len(proj_x) :
              /\ proj_ret.value[i] = Zero
                    \/ RSign(proj_ret.value[i]) = RSign(proj_x[i])
              /\ RLe(RAbs(proj_ret.value[i]), RAbs(proj_x[i]))
        /\ \A i \in 1..Len(proj_x), j \in 1..Len(proj_x) :
              RLe(RAbs(proj_x[j]), RAbs(proj_x[i])) =>
                  RLe(RAbs(proj_ret.value[j]), RAbs(proj_ret.value[i]))

C28_Witness ==
    /\ ProjGeneralCase
    /\ proj_calls = 1
    /\ Len(proj_x) = 3
    /\ proj_ret.status = "ok"
    /\ RLt(proj_x[1], Zero) /\ RLt(proj_ret.value[1], Zero)
    /\ proj_x[2] # Zero /\ proj_ret.value[2] = Zero
    /\ RLt(Zero, proj_ret.value[3])

\* ------------------------------------------------------------------------
\* The dual variable and the second block
\* ------------------------------------------------------------------------
\* C29: with g(u) = u^2 / 2, exact sub-solves and rho > 0 the dual variable
\* equals the second primal block after every completed iteration (y = w,
\* the gradient of g at w), for every f of the model and every starting
\* state, those with y = 0 among them; afterwards the two differ only
\* between the w update and the dual update of an iteration.
IterationCompleted ==
    admm_k >= 1 \/ (admm_k = 0 /\ admm_pc \in {"residual", "test", "for", "done"})

C29_DualEqualsW ==
    (IterationCompleted /\ admm_pc # "dual") => admm_y = w

C29_Witness ==
    /\ admm_pc = "test"
    /\ IterationCompleted
    /\ admm_y = w
    /\ w # Zero
    /\ w # w_tilde
    /\ rho = R(2)
    /\ admm_A = R(2)

\* ------------------------------------------------------------------------
\* Fixed points of the iteration
\* ------------------------------------------------------------------------
\* One full iteration with exact sub-solves, started from the current w and
\* y, gives back the current w_tilde, w and y
ADMMFixedPoint ==
    LET wt2 == ArgminF(admm_A, admm_b, rho, WTildeCentre(w, admm_y, rho))
        w2 == ArgminG(rho, WCentre(wt2, admm_y, rho))
        y2 == DualStep(admm_y, rho, wt2, w2)
    IN  wt2 = w_tilde /\ w2 = w /\ y2 = admm_y

\* C30: every fixed point of the iteration as coded (one full iteration
\* with exact sub-solves leaves w_tilde, w and y unchanged) has residual 0
\* and w_tilde = w equal to the minimiser of f + g, the root of
\* A (A u - b) + u = 0, which is a b / (a^2 + 1).
C30_FixedPointIsMinimiser ==
    (admm_pc \in {"for", "test", "done"} /\ ADMMFixedPoint) =>
        /\ w_tilde = w
        /\ RAbs(RSub(w, w_tilde)) = Zero
        /\ RAdd(RMul(admm_A, RSub(RMul(admm_A, w), admm_b)), w) = Zero
        /\ w = RDiv(RMul(admm_A, admm_b), RAdd(RMul(admm_A, admm_A), R(1)))

C30_Witness ==
    /\ admm_pc = "test"
    /\ admm_k = 0
    /\ ADMMFixedPoint
    /\ residual = Zero
    /\ w # Zero
    /\ admm_A = R(2)
    /\ rho = R(2)

====
